---- MODULE Spec2Model ----
(***************************************************************************)
(* Aura Emotion Engine: SpotifyPlayer.play_for_emotion with its three      *)
(* recommendation layers (spotify_player.py) and the frame aggregator      *)
(* detect_dominant_emotion (interface.py, emotion_analysis.py).            *)
(*                                                                         *)
(* The streaming service, the webcam and the classifier are the            *)
(* environment: every external call nondeterministically returns a         *)
(* well-formed response, a malformed one, or raises.                       *)
(* Feature values are scaled by 100 (0.7 is 70, tempo 90 is 9000).         *)
(***************************************************************************)
EXTENDS Integers, Sequences, FiniteSets, TLC

\* ------------------------------------------------------------------------
\* Bounds of the model
\* ------------------------------------------------------------------------
MaxDevices == 2
MaxPlaylists == 2
MaxItems == 3
MaxExtra == 1
MaxCalls == 1

\* ------------------------------------------------------------------------
\* Program constants
\* ------------------------------------------------------------------------
PlaybackCap == 50
Layer1Limit == 40
Layer3Limit == 50
SearchLimit == 30
EMOTION_FRAMES == 5

\* Python's None, for values that are otherwise strings.
NONE == "<None>"

Min(a, b) == IF a < b THEN a ELSE b

\* ------------------------------------------------------------------------
\* str.lower(), on the strings the model passes around
\* ------------------------------------------------------------------------
Lower(s) ==
    CASE s = "Happy" -> "happy"
      [] s = "HAPPY" -> "happy"
      [] s = "Sad" -> "sad"
      [] s = "SAD" -> "sad"
      [] s = "Neutral" -> "neutral"
      [] s = "NEUTRAL" -> "neutral"
      [] s = "Bored" -> "bored"
      [] s = "BORED" -> "bored"
      [] OTHER -> s

\* ------------------------------------------------------------------------
\* EMOTION_GENRES / EMOTION_TARGETS
\* ------------------------------------------------------------------------
Emotions == {"happy", "sad", "angry", "surprise", "disgust", "fear", "neutral"}

EMOTION_GENRES ==
    [e \in Emotions |->
        CASE e = "happy" -> <<"pop", "dance", "latin">>
          [] e = "sad" -> <<"acoustic", "classical", "blues">>
          [] e = "angry" -> <<"rock", "metal", "punk">>
          [] e = "surprise" -> <<"electronic", "house", "edm">>
          [] e = "disgust" -> <<"soul", "r&b", "blues">>
          [] e = "fear" -> <<"ambient", "soundtracks", "darkwave">>
          [] e = "neutral" -> <<"indie", "chill", "lofi">>]

\* Each entry is <<feature, low, high>>.
EMOTION_TARGETS ==
    [e \in Emotions |->
        CASE e = "happy" -> {<<"valence", 70, 100>>, <<"energy", 60, 100>>,
                             <<"danceability", 50, 100>>}
          [] e = "sad" -> {<<"valence", 0, 30>>, <<"energy", 0, 30>>,
                           <<"acousticness", 40, 100>>}
          [] e = "angry" -> {<<"valence", 10, 40>>, <<"energy", 60, 100>>,
                             <<"tempo", 9000, 15000>>}
          [] e = "surprise" -> {<<"valence", 50, 80>>, <<"energy", 60, 90>>,
                                <<"danceability", 50, 80>>}
          [] e = "disgust" -> {<<"valence", 20, 50>>, <<"energy", 30, 60>>,
                               <<"acousticness", 40, 70>>}
          [] e = "fear" -> {<<"valence", 0, 40>>, <<"energy", 20, 50>>,
                            <<"instrumentalness", 30, 100>>}
          [] e = "neutral" -> {<<"valence", 40, 60>>, <<"energy", 40, 60>>}]

\* self.EMOTION_GENRES.get(emotion, ["pop"])
GenresFor(e) == IF e \in Emotions THEN EMOTION_GENRES[e] ELSE <<"pop">>

\* Variant of TargetsFor: an emotion outside the table gets the neutral ranges.
TargetsForDefaultNeutral(e) ==
    IF e \in Emotions THEN EMOTION_TARGETS[e] ELSE EMOTION_TARGETS["neutral"]

\* self.EMOTION_TARGETS.get(emotion, {})
TargetsFor(e) == IF e \in Emotions THEN EMOTION_TARGETS[e] ELSE {}

\* Variant of ConvertTargets: low + high, the halving left out.
ConvertTargetsSum(e) == {<<t[1], t[2] + t[3]>> : t \in TargetsFor(e)}

\* _convert_targets: target_<feature> -> (low + high) / 2, scaled by 100
\* (every low + high of the table is even on that scale).
ConvertTargets(e) ==
    {<<t[1], (t[2] + t[3]) \div 2>> : t \in TargetsFor(e)}


\* str.upper(), on the normalised emotion strings
Upper(s) ==
    CASE s = "happy" -> "HAPPY"
      [] s = "sad" -> "SAD"
      [] s = "neutral" -> "NEUTRAL"
      [] s = "bored" -> "BORED"
      [] OTHER -> s

Range(f) == {f[i] : i \in DOMAIN f}

\* Variant of Slice: queue[-n:], the last n instead of the first n.
SliceTail(q, n) == SubSeq(q, Len(q) - Min(Len(q), n) + 1, Len(q))

\* queue[:n]
Slice(q, n) == SubSeq(q, 1, Min(Len(q), n))

\* ------------------------------------------------------------------------
\* State
\* ------------------------------------------------------------------------
VARIABLES
    pc,            \* position inside play_for_emotion / a layer
    ncalls,        \* invocations started so far
    emotion,       \* the (normalised) emotion of the running invocation
    device,        \* play_for_emotion's local `device`
    devList,       \* the device list the service returned in this invocation
    xferFailed,    \* the transfer_playback call just made raised (history, kept
                   \* until Layer 1 issues its first call)
    topArtists,    \* Layer 1: response of current_user_top_artists
    topTracks,     \* Layer 1: response of current_user_top_tracks
    playlists,     \* Layer 2: `playlists`
    plIdx,         \* Layer 2: index of the playlist being processed
    items,         \* Layer 2: `items` of the current playlist
    track_ids,     \* Layer 2: `track_ids` of the current playlist
    matched,       \* Layer 2: `matched`
    target,        \* Layer 2: `target`
    l2Fetched,     \* Layer 2: ids of the tracks its playlists held (history)
    l2Failed,      \* Layer 2: one of its fetches raised or was malformed (history)
    l2Lost,        \* Layer 2: `matched` when an exception ended the layer (history)
    seed,          \* Layer 3: `seed`
    ret,           \* the value the last finished layer returned
    ran,           \* layers that have returned in this invocation
    lret,          \* what each layer returned
    queue,         \* play_for_emotion's local `queue`
    calls,         \* number of calls of each service method, this invocation
    recArgs,       \* arguments of each recommendations call
    searchArgs,    \* arguments of each search call
    startArgs,     \* arguments and outcome of each start_playback call
    transferArgs,  \* arguments of each transfer_playback call
    nowPlaying,    \* the "NOW PLAYING" lines printed
    result,        \* value returned to the caller
    escaped,       \* an exception left play_for_emotion
    dpc,           \* position inside detect_dominant_emotion
    di,            \* iterations of its loop started so far
    frame,         \* its local `frame`
    emotions,      \* its local `emotions`
    frameLog,      \* what each requested frame gave (history)
    sleeps,        \* number of time.sleep(EMOTION_DELAY) calls
    dresult,       \* value detect_dominant_emotion returned
    prevDevice,    \* the device the previous invocation resolved (history kept
                   \* over sequences of invocations)
    gpc,           \* position inside AuraInterface.next_track_emotion
    current_emotion, \* interface.py's global current_emotion
    current_track, \* interface.py's global current_track
    guiCalls       \* external calls the running (or last) GUI handler made itself

ctlVars == <<pc, ncalls, emotion>>
devVars == <<device, devList, xferFailed>>
l1Vars == <<topArtists, topTracks>>
l2Vars == <<playlists, plIdx, items, track_ids, matched, target>>
l2Hist == <<l2Fetched, l2Failed, l2Lost>>
retVars == <<ret, ran, lret, queue>>
logVars == <<calls, recArgs, searchArgs, startArgs, transferArgs>>
outVars == <<nowPlaying, result, escaped>>
playVars == <<ctlVars, devVars, l1Vars, l2Vars, l2Hist, seed, retVars, logVars,
              outVars>>
detVars == <<dpc, di, frame, emotions, frameLog, sleeps, dresult>>
sessVars == <<prevDevice>>
guiVars == <<gpc, current_emotion, current_track, guiCalls>>

APIs == {"devices", "transfer_playback", "top_artists", "top_tracks",
         "recommendations", "playlists", "playlist_tracks", "audio_features",
         "search", "start_playback"}

Called(api) == calls' = [calls EXCEPT ![api] = @ + 1]

\* Emotion strings handed to play_for_emotion.
EmotionInputs == {"Happy", "neutral", "Bored"}

\* ------------------------------------------------------------------------
\* try/except: the call sites enclosed by a handler that swallows the
\* exception (get_active_device, ensure_device, the three layers, the
\* search fallback and the playback submission).
\* ------------------------------------------------------------------------
\* Variant of Guarded: the search fallback of Layer 3 without its handler.
GuardedNoSearch == {"devices", "transfer", "layer1", "layer2", "layer3_rec", "start"}

Guarded == {"devices", "transfer", "layer1", "layer2", "layer3_rec",
            "layer3_search", "start"}

Ok(v) == [raised |-> FALSE, value |-> v]
Raised(v) == [raised |-> TRUE, value |-> v]

\* The outcome of a guarded region: `fallback` is what its handler yields.
Try(site, r, fallback) ==
    IF r.raised /\ site \in Guarded THEN Ok(fallback) ELSE r

\* An exception nobody caught ends the invocation without a return value.
Escape ==
    /\ pc' = "done"
    /\ result' = NONE
    /\ escaped' = TRUE

Return(v) ==
    /\ pc' = "done"
    /\ result' = v
    /\ escaped' = FALSE

\* ------------------------------------------------------------------------
\* Device handling
\* ------------------------------------------------------------------------
DevId == <<"d1", "d2", "d3">>

\* The i-th device of a list: well formed, or lacking one of its keys.
DevEntries(i) ==
    {[id |-> DevId[i], is_active |-> a, keys |-> {"id", "is_active"}] :
        a \in BOOLEAN}
    \cup {[id |-> DevId[i], is_active |-> FALSE, keys |-> {"id"}],
          [id |-> DevId[i], is_active |-> TRUE, keys |-> {"is_active"}]}

AllDevEntries == UNION {DevEntries(i) : i \in 1..Len(DevId)}

DevLists ==
    UNION {{l \in [1..n -> AllDevEntries] : \A i \in 1..n : l[i] \in DevEntries(i)} :
        n \in 0..MaxDevices}

\* What self.sp.devices() may do.
DeviceResponses ==
    {[kind |-> "raise", devices |-> <<>>], [kind |-> "nokey", devices |-> <<>>]}
    \cup {[kind |-> "ok", devices |-> l] : l \in DevLists}

\* Variant of FirstActive: no device is taken as active, so that the first
\* listed one is returned.
FirstActiveNone(devices, i) == 0

\* next((d for d in devices if d["is_active"]), None): the index of the first
\* active device, 0 for None, -1 when d["is_active"] raises KeyError.
RECURSIVE FirstActive(_, _)
FirstActive(devices, i) ==
    IF i > Len(devices) THEN 0
    ELSE IF "is_active" \notin devices[i].keys THEN 0 - 1
    ELSE IF devices[i].is_active THEN i
    ELSE FirstActive(devices, i + 1)

\* d["id"]
DeviceIdOf(d) == IF "id" \in d.keys THEN Ok(d.id) ELSE Raised(NONE)

\* The body of get_active_device's try block.
ActiveDeviceBody(resp) ==
    IF resp.kind = "raise" THEN Raised(NONE)
    ELSE LET devices == IF resp.kind = "nokey" THEN <<>> ELSE resp.devices
             a == FirstActive(devices, 1)
         IN  IF Len(devices) = 0 THEN Ok(NONE)
             ELSE IF a < 0 THEN Raised(NONE)
             ELSE IF a > 0 THEN DeviceIdOf(devices[a])
             ELSE DeviceIdOf(devices[1])

\* Variant of get_active_device: a device resolved by an earlier invocation
\* is remembered and handed out again.
get_active_device_cached(resp) ==
    IF prevDevice # NONE THEN Ok(prevDevice)
    ELSE Try("devices", ActiveDeviceBody(resp), NONE)

get_active_device(resp) == Try("devices", ActiveDeviceBody(resp), NONE)

\* Variant of HasDevice: play_for_emotion without its `if not device` test.
HasDeviceAlways(d) == TRUE

\* `if not device` in play_for_emotion: the invocation goes on to the layers
\* only with a device.
HasDevice(d) == d # NONE

\* play_for_emotion, from the return of ensure_device.
AfterEnsureDevice(d) ==
    IF HasDevice(d)
    THEN pc' = "L1_artists" /\ UNCHANGED <<result, escaped>>
    ELSE Return("False")

\* ensure_device, up to the transfer: self.get_active_device()
GetDevices ==
    /\ pc = "devices"
    /\ \E resp \in DeviceResponses :
         LET r == get_active_device(resp) IN
         /\ Called("devices")
         /\ devList' = resp.devices
         /\ xferFailed' = FALSE
         /\ IF r.raised
            THEN Escape /\ UNCHANGED device
            ELSE /\ device' = r.value
                 /\ IF r.value # NONE
                    THEN pc' = "transfer" /\ UNCHANGED <<result, escaped>>
                    ELSE AfterEnsureDevice(r.value)
    /\ UNCHANGED <<ncalls, emotion, l2Hist, l1Vars, l2Vars, seed, retVars, recArgs,
                   searchArgs, startArgs, transferArgs, nowPlaying>>
    /\ UNCHANGED <<detVars, sessVars, guiVars>>

\* ensure_device: self.sp.transfer_playback(device), errors swallowed
TransferPlayback ==
    /\ pc = "transfer"
    /\ \E fails \in BOOLEAN :
         LET r == Try("transfer", IF fails THEN Raised(NONE) ELSE Ok(NONE), NONE) IN
         /\ Called("transfer_playback")
         /\ transferArgs' = Append(transferArgs, device)
         /\ xferFailed' = fails
         /\ IF r.raised THEN Escape ELSE AfterEnsureDevice(device)
    /\ UNCHANGED <<ncalls, emotion, l2Hist, device, devList, l1Vars, l2Vars, seed,
                   retVars, recArgs, searchArgs, startArgs, nowPlaying>>
    /\ UNCHANGED <<detVars, sessVars, guiVars>>


\* ------------------------------------------------------------------------
\* Responses carrying track lists (recommendations, search)
\* ------------------------------------------------------------------------
\* Lengths of the track lists the service returns.
RespLens == {0, 1} \cup {PlaybackCap + k : k \in 0..MaxExtra}

RecResponses ==
    {[kind |-> "raise", n |-> 0], [kind |-> "nokey", n |-> 0],
     [kind |-> "baditem", n |-> 1]}
    \cup {[kind |-> "ok", n |-> k] : k \in RespLens}

SearchResponses ==
    {[kind |-> "raise", n |-> 0], [kind |-> "nokey", n |-> 0],
     [kind |-> "baditem", n |-> 1]}
    \cup {[kind |-> "ok", n |-> k] : k \in 0..2}

\* The URIs of the service's tracks: those of one source are numbered in the
\* order the service returns them, from a base that tells the sources apart.
UriBase(source) ==
    CASE source = "layer1" -> 1000
      [] source = "playlist" -> 2000
      [] source = "layer3" -> 3000
      [] source = "search" -> 4000

\* [t["uri"] for t in rec.get("tracks", [])]: KeyError on a track without uri.
RecUris(resp, source) ==
    CASE resp.kind = "raise" -> Raised(<<>>)
      [] resp.kind = "nokey" -> Ok(<<>>)
      [] resp.kind = "baditem" -> Raised(<<>>)
      [] OTHER -> Ok([i \in 1..resp.n |-> UriBase(source) + i])

\* [t["uri"] for t in result["tracks"]["items"]]: KeyError on a missing key.
SearchUris(resp, source) ==
    CASE resp.kind = "raise" -> Raised(<<>>)
      [] resp.kind = "nokey" -> Raised(<<>>)
      [] resp.kind = "baditem" -> Raised(<<>>)
      [] OTHER -> Ok([i \in 1..resp.n |-> UriBase(source) + i])

\* A layer hands `r` back to its caller.
LayerReturns(l, r, next) ==
    IF r.raised
    THEN Escape /\ UNCHANGED <<ret, ran, lret>>
    ELSE /\ ret' = r.value
         /\ ran' = ran \cup {l}
         /\ lret' = [lret EXCEPT ![l] = r.value]
         /\ pc' = next
         /\ UNCHANGED <<result, escaped>>

\* ------------------------------------------------------------------------
\* Layer 1: user-based recommendations
\* ------------------------------------------------------------------------
NoResponse == [kind |-> "none", items |-> <<>>]

\* Layer 1 returns: its locals go out of scope.
L1Return(r) ==
    /\ LayerReturns(1, r, "L1_ret")
    /\ topArtists' = NoResponse
    /\ topTracks' = NoResponse

TopResponses(ids) ==
    {[kind |-> "raise", items |-> <<>>], [kind |-> "nokey", items |-> <<>>],
     [kind |-> "ok", items |-> <<>>], [kind |-> "ok", items |-> ids],
     [kind |-> "baditem", items |-> ids]}

\* Variant of SeedOf: the last entry of the top list is taken as the seed.
SeedOfLast(resp) ==
    IF resp.kind = "nokey" \/ Len(resp.items) = 0 THEN Ok(NONE)
    ELSE IF resp.kind = "baditem" THEN Raised(NONE)
    ELSE Ok(resp.items[Len(resp.items)])

\* top[0]["id"] if top else None, for top = resp.get("items", []);
\* "baditem": the first item has no id.
SeedOf(resp) ==
    IF resp.kind = "nokey" \/ Len(resp.items) = 0 THEN Ok(NONE)
    ELSE IF resp.kind = "baditem" THEN Raised(NONE)
    ELSE Ok(resp.items[1])

\* [seed] if seed else None; <<>> stands for None.
SeedList(s) == IF s = NONE THEN <<>> ELSE <<s>>

L1TopArtists ==
    /\ pc = "L1_artists"
    /\ \E resp \in TopResponses(<<"a1", "a2">>) :
         /\ Called("top_artists")
         /\ IF resp.kind = "raise"
            THEN L1Return(Try("layer1", Raised(<<>>), <<>>))
            ELSE /\ topArtists' = resp
                 /\ pc' = "L1_tracks"
                 /\ UNCHANGED <<topTracks, ret, ran, lret, result, escaped>>
    /\ xferFailed' = FALSE
    /\ UNCHANGED <<ncalls, emotion, l2Hist, device, devList, l2Vars, seed, queue,
                   recArgs, searchArgs, startArgs, transferArgs, nowPlaying>>
    /\ UNCHANGED <<detVars, sessVars, guiVars>>

L1TopTracks ==
    /\ pc = "L1_tracks"
    /\ \E resp \in TopResponses(<<"t1", "t2">>) :
         /\ Called("top_tracks")
         /\ IF resp.kind = "raise"
            THEN L1Return(Try("layer1", Raised(<<>>), <<>>))
            ELSE /\ topTracks' = resp
                 /\ pc' = "L1_rec"
                 /\ UNCHANGED <<topArtists, ret, ran, lret, result, escaped>>
    /\ UNCHANGED <<ncalls, emotion, l2Hist, devVars, l2Vars, seed, queue,
                   recArgs, searchArgs, startArgs, transferArgs, nowPlaying>>
    /\ UNCHANGED <<detVars, sessVars, guiVars>>

\* The seeds, random.choice, _convert_targets and self.sp.recommendations
L1Recommendations ==
    /\ pc = "L1_rec"
    /\ LET sa == SeedOf(topArtists)
           st == SeedOf(topTracks)
       IN  IF sa.raised \/ st.raised
           THEN /\ L1Return(Try("layer1", Raised(<<>>), <<>>))
                /\ UNCHANGED <<calls, recArgs>>
           ELSE \E g \in Range(GenresFor(emotion)), resp \in RecResponses :
                  /\ Called("recommendations")
                  /\ recArgs' = Append(recArgs,
                        [seed_genres |-> <<g>>,
                         seed_artists |-> SeedList(sa.value),
                         seed_tracks |-> SeedList(st.value),
                         limit |-> Layer1Limit,
                         targets |-> ConvertTargets(emotion)])
                  /\ L1Return(Try("layer1", RecUris(resp, "layer1"), <<>>))
    /\ UNCHANGED <<ncalls, emotion, l2Hist, devVars, l2Vars, seed, queue,
                   searchArgs, startArgs, transferArgs, nowPlaying>>
    /\ UNCHANGED <<detVars, sessVars, guiVars>>


\* ------------------------------------------------------------------------
\* Layer 2: user playlist matching
\* ------------------------------------------------------------------------
\* The service's tracks, by id. Track 0 is no track: an item whose "track"
\* is None.
TrackIds == 1..5

\* The audio features the service has measured for each track (a set of
\* <<feature, value>>); isNone: the service has none and answers None.
TrackFeatures(k) ==
    CASE k = 1 -> [isNone |-> FALSE,
                   m |-> {<<"valence", 80>>, <<"energy", 80>>, <<"danceability", 80>>}]
      [] k = 2 -> [isNone |-> FALSE, m |-> {<<"valence", 50>>, <<"energy", 50>>}]
      [] k = 3 -> [isNone |-> FALSE, m |-> {}]
      [] k = 4 -> [isNone |-> FALSE, m |-> {<<"liveness", 20>>}]
      [] OTHER -> [isNone |-> TRUE, m |-> {}]

TrackUri(k) == UriBase("playlist") + k

\* Python truth of a feature map: None and {} are both false.
FeatTruthy(feat) == ~feat.isNone /\ feat.m # {}

\* _match_features
match_features(feat, tg) ==
    \A t \in tg :
        \A p \in feat.m : p[1] = t[1] => (t[2] <= p[2] /\ p[2] <= t[3])

\* Sequences over S of length at most n.
SeqsUpTo(S, n) == UNION {[1..k -> S] : k \in 0..n}

\* Items of a playlist, as the layer is exercised on its own and as part of
\* play_for_emotion.
LayerItemSeqs == SeqsUpTo({0} \cup TrackIds, MaxItems)
PlayItemSeqs == {<<>>, <<0>>, <<1>>, <<2, 1>>}

PlaylistResponses ==
    {[kind |-> "raise", n |-> 0], [kind |-> "nokey", n |-> 0]}
    \cup {[kind |-> "ok", n |-> k] : k \in 0..MaxPlaylists}
    \cup {[kind |-> "baditem", n |-> k] : k \in 1..MaxPlaylists}

NoPlaylists == [kind |-> "none", n |-> 0]

ItemResponses(seqs) ==
    {[kind |-> "raise", items |-> <<>>], [kind |-> "nokey", items |-> <<>>],
     [kind |-> "baditem", items |-> <<>>]}
    \cup {[kind |-> "ok", items |-> q] : q \in seqs}

\* [t["track"]["id"] for t in items if t["track"]]
RECURSIVE TrackIdsOf(_)
TrackIdsOf(its) ==
    IF Len(its) = 0 THEN <<>>
    ELSE IF Head(its) # 0 THEN <<Head(its)>> \o TrackIdsOf(Tail(its))
    ELSE TrackIdsOf(Tail(its))

\* for feat, item in zip(features, items): ... matched.append(item["track"]["uri"]);
\* item["track"]["uri"] raises TypeError on an item without track.
RECURSIVE ZipLoop(_, _, _, _)
ZipLoop(features, its, tg, i) ==
    IF i > Min(Len(features), Len(its)) THEN Ok(<<>>)
    ELSE IF FeatTruthy(features[i]) /\ match_features(features[i], tg)
    THEN IF its[i] = 0 THEN Raised(<<>>)
         ELSE LET rest == ZipLoop(features, its, tg, i + 1) IN
              IF rest.raised THEN rest
              ELSE Ok(<<TrackUri(its[i])>> \o rest.value)
    ELSE ZipLoop(features, its, tg, i + 1)

\* Layer 2 returns: its locals go out of scope.
L2Return(r) ==
    /\ LayerReturns(2, r, "L2_ret")
    /\ playlists' = NoPlaylists
    /\ plIdx' = 0
    /\ items' = <<>>
    /\ track_ids' = <<>>
    /\ matched' = <<>>
    /\ target' = {}

\* Variant of L2Except: the handler hands back what had matched so far.
L2ExceptPartial(m) == m

\* except Exception: ... return []
L2Except(m) == <<>>

\* An exception inside the layer's try block, raised when `matched` is m;
\* byFetch tells a failed or malformed fetch from an error of the zip loop.
L2Abort(m, byFetch) ==
    /\ L2Return(Try("layer2", Raised(<<>>), L2Except(m)))
    /\ l2Lost' = m
    /\ l2Failed' = (l2Failed \/ byFetch)

\* target = self.EMOTION_TARGETS.get(emotion, {}), then the head of
\* `for pl in playlists`, entered with index idx and matched m:
\* the loop ends and the layer returns, or pl["id"] is read (KeyError on a
\* playlist without id: "baditem" is a list whose last playlist has none).
L2LoopHead(pls, idx, m) ==
    IF pls.kind = "nokey" \/ idx > pls.n
    THEN L2Return(Ok(m)) /\ UNCHANGED <<l2Failed, l2Lost>>
    ELSE IF pls.kind = "baditem" /\ idx = pls.n
    THEN L2Abort(m, TRUE)
    ELSE /\ pc' = "L2_tracks"
         /\ UNCHANGED <<l2Failed, l2Lost>>
         /\ playlists' = pls
         /\ plIdx' = idx
         /\ matched' = m
         /\ target' = TargetsFor(emotion)
         /\ items' = <<>>
         /\ track_ids' = <<>>
         /\ UNCHANGED <<ret, ran, lret, result, escaped>>

L2Playlists ==
    /\ pc = "L2_playlists"
    /\ \E resp \in PlaylistResponses :
         /\ Called("playlists")
         /\ IF resp.kind = "raise"
            THEN L2Abort(<<>>, TRUE)
            ELSE L2LoopHead(resp, 1, <<>>)
    /\ UNCHANGED <<ncalls, emotion, l2Fetched, devVars, l1Vars, seed, queue, recArgs,
                   searchArgs, startArgs, transferArgs, nowPlaying>>
    /\ UNCHANGED <<detVars, sessVars, guiVars>>

\* self.sp.playlist_tracks(pl["id"], limit=50), track_ids, `continue`
L2PlaylistTracks(seqs) ==
    /\ pc = "L2_tracks"
    /\ \E resp \in ItemResponses(seqs) :
         /\ Called("playlist_tracks")
         /\ l2Fetched' = l2Fetched \cup (Range(resp.items) \ {0})
         /\ IF resp.kind \in {"raise", "baditem"}
            THEN L2Abort(matched, TRUE)
            ELSE IF Len(TrackIdsOf(resp.items)) = 0
            THEN L2LoopHead(playlists, plIdx + 1, matched)
            ELSE /\ items' = resp.items
                 /\ track_ids' = TrackIdsOf(resp.items)
                 /\ pc' = "L2_features"
                 /\ UNCHANGED <<playlists, plIdx, matched, target, l2Failed, l2Lost, ret,
                                ran,
                                lret, result, escaped>>
    /\ UNCHANGED <<ncalls, emotion, devVars, l1Vars, seed, queue, recArgs,
                   searchArgs, startArgs, transferArgs, nowPlaying>>
    /\ UNCHANGED <<detVars, sessVars, guiVars>>

\* self.sp.audio_features(track_ids) and the zip loop over its answer
L2AudioFeatures ==
    /\ pc = "L2_features"
    /\ \E fails \in BOOLEAN :
         LET features == [i \in 1..Len(track_ids) |-> TrackFeatures(track_ids[i])]
             r == IF fails THEN Raised(<<>>)
                  ELSE ZipLoop(features, items, target, 1)
         IN  /\ Called("audio_features")
             /\ IF r.raised
                THEN L2Abort(matched, fails)
                ELSE L2LoopHead(playlists, plIdx + 1, matched \o r.value)
    /\ UNCHANGED <<ncalls, emotion, l2Fetched, devVars, l1Vars, seed, queue, recArgs,
                   searchArgs, startArgs, transferArgs, nowPlaying>>
    /\ UNCHANGED <<detVars, sessVars, guiVars>>

\* ------------------------------------------------------------------------
\* Layer 3: global fallback
\* ------------------------------------------------------------------------
\* random.choice, _convert_targets, self.sp.recommendations; `if tracks`
L3Recommendations ==
    /\ pc = "L3_rec"
    /\ \E g \in Range(GenresFor(emotion)), resp \in RecResponses :
         LET r == Try("layer3_rec", RecUris(resp, "layer3"), <<>>) IN
         /\ Called("recommendations")
         /\ recArgs' = Append(recArgs,
               [seed_genres |-> <<g>>,
                seed_artists |-> <<>>,
                seed_tracks |-> <<>>,
                limit |-> Layer3Limit,
                targets |-> ConvertTargets(emotion)])
         /\ IF r.raised \/ Len(r.value) > 0
            THEN LayerReturns(3, r, "L3_ret") /\ seed' = NONE
            ELSE /\ pc' = "L3_search"
                 /\ seed' = g
                 /\ UNCHANGED <<ret, ran, lret, result, escaped>>
    /\ UNCHANGED <<ncalls, emotion, l2Hist, devVars, l1Vars, l2Vars, queue, searchArgs,
                   startArgs, transferArgs, nowPlaying>>
    /\ UNCHANGED <<detVars, sessVars, guiVars>>

\* Variant of SearchQuery: the query names the default genre, not the seed.
SearchQueryPop(g) == <<"genre:", "pop">>

\* f"genre:{seed}"
SearchQuery(g) == <<"genre:", g>>

\* self.sp.search(q=f"genre:{seed}", type="track", limit=30)
L3Search ==
    /\ pc = "L3_search"
    /\ \E resp \in SearchResponses :
         /\ Called("search")
         /\ searchArgs' = Append(searchArgs,
               [q |-> SearchQuery(seed), type |-> "track", limit |-> SearchLimit])
         /\ LayerReturns(3, Try("layer3_search", SearchUris(resp, "search"), <<>>),
                         "L3_ret")
         /\ seed' = NONE
    /\ UNCHANGED <<ncalls, emotion, l2Hist, devVars, l1Vars, l2Vars, queue,
                   recArgs, startArgs, transferArgs, nowPlaying>>
    /\ UNCHANGED <<detVars, sessVars, guiVars>>

\* ------------------------------------------------------------------------
\* play_for_emotion
\* ------------------------------------------------------------------------
\* Python truth of a list, as `or` and `if not queue` read it.
ListTruthy(q) == Len(q) > 0

\* Variant of OrTakes: every layer is run, whatever the earlier ones gave.
OrTakesNever(q) == FALSE

\* x or <next layer>: the next layer is evaluated only when x is false.
OrTakes(q) == ListTruthy(q)

\* Variant of AfterLayers: no `if not queue` test before the submission.
AfterLayersNoCheck(q) == pc' = "start" /\ UNCHANGED <<result, escaped>>

\* Variant of AfterLayers: with an empty queue the layers are tried again.
AfterLayersRetry(q) ==
    IF ListTruthy(q)
    THEN pc' = "start" /\ UNCHANGED <<result, escaped>>
    ELSE pc' = "L1_artists" /\ UNCHANGED <<result, escaped>>

\* `if not queue: return False`, else on to the playback submission.
AfterLayers(q) ==
    IF ListTruthy(q)
    THEN pc' = "start" /\ UNCHANGED <<result, escaped>>
    ELSE Return("False")

\* Fresh locals of play_for_emotion and empty logs of an invocation.
FreshLocals ==
    /\ device' = NONE
    /\ devList' = <<>>
    /\ xferFailed' = FALSE
    /\ topArtists' = NoResponse
    /\ topTracks' = NoResponse
    /\ playlists' = NoPlaylists
    /\ plIdx' = 0
    /\ items' = <<>>
    /\ track_ids' = <<>>
    /\ matched' = <<>>
    /\ target' = {}
    /\ l2Fetched' = {}
    /\ l2Failed' = FALSE
    /\ l2Lost' = <<>>
    /\ seed' = NONE
    /\ ret' = <<>>
    /\ ran' = {}
    /\ lret' = [l \in 1..3 |-> <<>>]
    /\ queue' = <<>>
    /\ calls' = [a \in APIs |-> 0]
    /\ recArgs' = <<>>
    /\ searchArgs' = <<>>
    /\ startArgs' = <<>>
    /\ transferArgs' = <<>>
    /\ nowPlaying' = <<>>
    /\ result' = NONE
    /\ escaped' = FALSE

\* The entry of play_for_emotion(e): emotion = emotion.lower().
Enter(e) ==
    /\ emotion' = Lower(e)
    /\ pc' = "devices"
    /\ FreshLocals

\* play_for_emotion has returned to a caller that drops its value: its
\* locals are gone, and the logs of the invocation with them.
Leave ==
    /\ emotion' = NONE
    /\ pc' = "idle"
    /\ FreshLocals

Call ==
    /\ pc \in {"idle", "done"}
    /\ ncalls < MaxCalls
    /\ ncalls' = ncalls + 1
    /\ \E e \in EmotionInputs : Enter(e)
    /\ UNCHANGED <<detVars, sessVars, guiVars>>

PlayOr1 ==
    /\ pc = "L1_ret"
    /\ IF OrTakes(ret)
       THEN queue' = ret /\ AfterLayers(ret)
       ELSE pc' = "L2_playlists" /\ UNCHANGED <<queue, result, escaped>>
    /\ UNCHANGED <<ncalls, emotion, l2Hist, devVars, l1Vars, l2Vars, seed, ret, ran,
                   lret, logVars, nowPlaying>>
    /\ UNCHANGED <<detVars, sessVars, guiVars>>

PlayOr2 ==
    /\ pc = "L2_ret"
    /\ IF OrTakes(ret)
       THEN queue' = ret /\ AfterLayers(ret)
       ELSE pc' = "L3_rec" /\ UNCHANGED <<queue, result, escaped>>
    /\ l2Fetched' = {}
    /\ l2Failed' = FALSE
    /\ l2Lost' = <<>>
    /\ UNCHANGED <<ncalls, emotion, devVars, l1Vars, l2Vars, seed, ret, ran,
                   lret, logVars, nowPlaying>>
    /\ UNCHANGED <<detVars, sessVars, guiVars>>

PlayOr3 ==
    /\ pc = "L3_ret"
    /\ queue' = ret
    /\ AfterLayers(ret)
    /\ UNCHANGED <<ncalls, emotion, l2Hist, devVars, l1Vars, l2Vars, seed, ret, ran,
                   lret, logVars, nowPlaying>>
    /\ UNCHANGED <<detVars, sessVars, guiVars>>

\* Variant of PlaybackOutcome: `return True` whatever the call did.
PlaybackOutcomeAlwaysTrue(fails) == Ok("True")

\* The try block around start_playback: True after the call, an exception
\* when the call fails.
PlaybackOutcome(fails) == IF fails THEN Raised("False") ELSE Ok("True")

\* self.sp.start_playback(device_id=device, uris=queue[:50]) and the report
StartPlayback ==
    /\ pc = "start"
    /\ \E fails \in BOOLEAN :
         LET r == Try("start", PlaybackOutcome(fails), "False")
         IN  /\ Called("start_playback")
             /\ startArgs' = Append(startArgs,
                   [device_id |-> device, uris |-> Slice(queue, PlaybackCap),
                    failed |-> fails])
             /\ nowPlaying' =
                   IF fails THEN nowPlaying
                   ELSE Append(nowPlaying,
                               [emotion |-> Upper(emotion), total |-> Len(queue)])
             /\ IF r.raised THEN Escape ELSE Return(r.value)
    /\ UNCHANGED <<ncalls, emotion, l2Hist, devVars, l1Vars, l2Vars, seed, retVars,
                   recArgs, searchArgs, transferArgs>>
    /\ UNCHANGED <<detVars, sessVars, guiVars>>

\* ------------------------------------------------------------------------
\* detect_dominant_emotion (interface.py) and EmotionAnalyzer.analyze
\* ------------------------------------------------------------------------
\* dominant_emotion values the classifier hands out.
RawLabels == {"happy", "sad", "Sad"}

\* What DeepFace.analyze may do with a frame: raise, return an empty list,
\* return a result without dominant_emotion, return one whose scores cannot
\* be read as a number, or return a well-formed result.
ClassifierOutcomes ==
    {[kind |-> k, label |-> NONE] : k \in {"raise", "empty", "nokey", "badscores"}}
    \cup {[kind |-> "ok", label |-> l] : l \in RawLabels}

\* Variant of analyze: a failed classification counts as "neutral".
analyzeDefaultNeutral(fr, df) ==
    IF fr = NONE THEN NONE
    ELSE IF df.kind = "ok" THEN Lower(df.label)
    ELSE "neutral"

\* EmotionAnalyzer.analyze: the "emotion" of the dict it returns, or None.
analyze(fr, df) ==
    IF fr = NONE THEN NONE
    ELSE IF df.kind = "ok" THEN Lower(df.label)
    ELSE NONE

\* Number of occurrences of x in seq.
Count(seq, x) == Cardinality({i \in DOMAIN seq : seq[i] = x})

\* The keys of Counter(seq), in insertion order: first occurrences.
RECURSIVE CounterKeys(_)
CounterKeys(seq) ==
    IF Len(seq) = 0 THEN <<>>
    ELSE LET init == SubSeq(seq, 1, Len(seq) - 1)
             last == seq[Len(seq)]
         IN  IF \E i \in DOMAIN init : init[i] = last
             THEN CounterKeys(init)
             ELSE Append(CounterKeys(init), last)

\* Variant of MaxByCount: a later key replaces the best one on equal counts.
RECURSIVE MaxByCountLast(_, _, _)
MaxByCountLast(seq, keys, best) ==
    IF Len(keys) = 0 THEN best
    ELSE MaxByCountLast(seq, Tail(keys),
            IF Count(seq, Head(keys)) >= Count(seq, best) THEN Head(keys) ELSE best)

\* max(counter.items(), key=count): the first key, in iteration order, whose
\* count is the largest.
RECURSIVE MaxByCount(_, _, _)
MaxByCount(seq, keys, best) ==
    IF Len(keys) = 0 THEN best
    ELSE MaxByCount(seq, Tail(keys),
            IF Count(seq, Head(keys)) > Count(seq, best) THEN Head(keys) ELSE best)

\* Counter(emotions).most_common(1)[0][0], for a non-empty list
MostCommon(seq) ==
    LET keys == CounterKeys(seq) IN MaxByCount(seq, Tail(keys), Head(keys))

\* The head of `for _ in range(EMOTION_FRAMES)` after i iterations, with the
\* list ems: another frame is requested, or the function returns.
DetLoopHead(i, ems) ==
    IF i < EMOTION_FRAMES
    THEN dpc' = "frame" /\ UNCHANGED dresult
    ELSE /\ dpc' = "done"
         /\ dresult' = IF Len(ems) > 0 THEN MostCommon(ems) ELSE NONE

\* Fresh locals of detect_dominant_emotion and an empty log.
DetFresh ==
    /\ di' = 0
    /\ frame' = NONE
    /\ emotions' = <<>>
    /\ frameLog' = <<>>
    /\ sleeps' = 0
    /\ dresult' = NONE

DetCall ==
    /\ dpc \in {"idle", "done"}
    /\ DetFresh
    /\ dpc' = "frame"
    /\ UNCHANGED <<playVars, sessVars, guiVars>>

\* ok, frame = wm.get_frame(); `if not ok: continue`
DetGetFrame ==
    /\ dpc = "frame"
    /\ \E ok \in BOOLEAN, fr \in {"img", NONE} :
         /\ (~ok => fr = NONE)
         /\ di' = di + 1
         /\ IF ok
            THEN /\ frame' = fr
                 /\ dpc' = "analyze"
                 /\ UNCHANGED <<frameLog, dresult>>
            ELSE /\ frame' = NONE
                 /\ frameLog' = Append(frameLog, [ok |-> FALSE, label |-> NONE])
                 /\ DetLoopHead(di + 1, emotions)
    /\ UNCHANGED <<emotions, sleeps, playVars, sessVars, guiVars>>

\* data = ea.analyze(frame); `if data: emotions.append(data["emotion"])`
DetAnalyze ==
    /\ dpc = "analyze"
    /\ \E df \in ClassifierOutcomes :
         LET data == analyze(frame, df) IN
         /\ emotions' = IF data # NONE THEN Append(emotions, data) ELSE emotions
         /\ frameLog' = Append(frameLog,
               [ok |-> TRUE,
                label |-> IF frame # NONE /\ df.kind = "ok" THEN df.label ELSE NONE])
    /\ dpc' = "sleep"
    /\ frame' = NONE
    /\ UNCHANGED <<di, sleeps, dresult, playVars, sessVars, guiVars>>

\* time.sleep(EMOTION_DELAY), then the next iteration or the return
DetSleep ==
    /\ dpc = "sleep"
    /\ sleeps' = sleeps + 1
    /\ DetLoopHead(di, emotions)
    /\ UNCHANGED <<di, frame, emotions, frameLog, playVars, sessVars, guiVars>>

DetInit ==
    /\ dpc = "idle"
    /\ di = 0
    /\ frame = NONE
    /\ emotions = <<>>
    /\ frameLog = <<>>
    /\ sleeps = 0
    /\ dresult = NONE

\* ------------------------------------------------------------------------
\* The GUI handlers (interface.py). The Qt event loop runs one handler at a
\* time: a timer or a button handler starts only when none is running.
\* ------------------------------------------------------------------------
\* Variant of Detected: next_track_emotion without its `if emotion` test.
DetectedAlways(label) == TRUE

\* `if emotion:` on the value detect_dominant_emotion returned
Detected(label) == label # NONE

\* The "Next" button: next_track_emotion starts with detect_dominant_emotion().
GuiPress ==
    /\ gpc = "idle"
    /\ gpc' = "detect"
    /\ guiCalls' = <<>>
    /\ DetFresh
    /\ dpc' = "frame"
    /\ UNCHANGED <<current_emotion, current_track, playVars, sessVars>>

\* detect_dominant_emotion has returned: `if emotion:` sets current_emotion
\* and calls spotify.play_for_emotion(emotion); `else` goes for next_track.
GuiDispatch ==
    /\ gpc = "detect"
    /\ dpc = "done"
    /\ IF Detected(dresult)
       THEN /\ current_emotion' = dresult
            /\ Enter(dresult)
            /\ gpc' = "play"
            /\ UNCHANGED ncalls
       ELSE /\ gpc' = "next_track"
            /\ UNCHANGED <<current_emotion, playVars>>
    /\ DetFresh
    /\ dpc' = "idle"
    /\ UNCHANGED <<current_track, guiCalls, sessVars>>

\* play_for_emotion has returned; the handler drops its value and ends.
GuiPlayReturn ==
    /\ gpc = "play"
    /\ pc = "done"
    /\ gpc' = "idle"
    /\ Leave
    /\ UNCHANGED <<ncalls, current_emotion, current_track, guiCalls, detVars, sessVars>>

\* spotify.sp.next_track(), its exception printed and dropped
GuiNextTrack ==
    /\ gpc = "next_track"
    /\ guiCalls' = Append(guiCalls, "next_track")
    /\ gpc' = "idle"
    /\ UNCHANGED <<current_emotion, current_track, playVars, detVars, sessVars>>

\* What spotify.sp.current_playback() may do: raise, return None, a playback
\* without item, or one with an item (whose name may be missing).
PlaybackResponses ==
    {[kind |-> k, is_playing |-> p] :
        k \in {"raise", "none", "noitem", "item", "baditem"}, p \in BOOLEAN}

\* update_track_info
TrackText(resp) ==
    CASE resp.kind = "item" -> "Song - Artist"
      [] resp.kind \in {"none", "noitem"} -> "No track playing"
      [] OTHER -> "Error getting track info"

\* The track timer: update_track_label, which calls update_track_info.
GuiUpdateTrackLabel ==
    /\ gpc = "idle"
    /\ \E resp \in PlaybackResponses :
         /\ current_track' = TrackText(resp)
         /\ guiCalls' = <<"current_playback">>
    /\ UNCHANGED <<gpc, current_emotion, playVars, detVars, sessVars>>

\* The play/pause button: pause when playing, start_playback otherwise; a
\* raise of current_playback is printed and dropped.
GuiTogglePlayPause ==
    /\ gpc = "idle"
    /\ \E resp \in PlaybackResponses :
         guiCalls' =
            IF resp.kind = "raise" THEN <<"current_playback">>
            ELSE IF resp.kind # "none" /\ resp.is_playing
            THEN <<"current_playback", "pause_playback">>
            ELSE <<"current_playback", "start_playback">>
    /\ UNCHANGED <<gpc, current_emotion, current_track, playVars, detVars, sessVars>>

\* The frame timer: update_frame asks the camera for a frame and paints it
\* with the colour and the text of current_emotion, which it only reads
\* (the content of the widgets is not part of the state).
GuiUpdateFrame ==
    /\ gpc = "idle"
    /\ guiCalls' = <<"get_frame">>
    /\ UNCHANGED <<gpc, current_emotion, current_track, playVars, detVars, sessVars>>

\* The "Previous" button.
GuiPreviousTrack ==
    /\ gpc = "idle"
    /\ guiCalls' = <<"previous_track">>
    /\ UNCHANGED <<gpc, current_emotion, current_track, playVars, detVars, sessVars>>

\* ------------------------------------------------------------------------
\* Specification of play_for_emotion
\* ------------------------------------------------------------------------
PlayInit ==
    /\ pc = "idle"
    /\ ncalls = 0
    /\ emotion = NONE
    /\ device = NONE
    /\ devList = <<>>
    /\ xferFailed = FALSE
    /\ topArtists = NoResponse
    /\ topTracks = NoResponse
    /\ playlists = NoPlaylists
    /\ plIdx = 0
    /\ items = <<>>
    /\ track_ids = <<>>
    /\ matched = <<>>
    /\ target = {}
    /\ l2Fetched = {}
    /\ l2Failed = FALSE
    /\ l2Lost = <<>>
    /\ seed = NONE
    /\ ret = <<>>
    /\ ran = {}
    /\ lret = [l \in 1..3 |-> <<>>]
    /\ queue = <<>>
    /\ calls = [a \in APIs |-> 0]
    /\ recArgs = <<>>
    /\ searchArgs = <<>>
    /\ startArgs = <<>>
    /\ transferArgs = <<>>
    /\ nowPlaying = <<>>
    /\ result = NONE
    /\ escaped = FALSE


Next ==
    \/ Call
    \/ GetDevices
    \/ TransferPlayback
    \/ L1TopArtists
    \/ L1TopTracks
    \/ L1Recommendations
    \/ PlayOr1
    \/ L2Playlists
    \/ L2PlaylistTracks(PlayItemSeqs)
    \/ L2AudioFeatures
    \/ PlayOr2
    \/ L3Recommendations
    \/ L3Search
    \/ PlayOr3
    \/ StartPlayback

\* No invocation has gone before.
SessInit == prevDevice = NONE

\* current_emotion = "None"; current_track = "None"; no handler is running.
GuiInit ==
    /\ gpc = "idle"
    /\ current_emotion = "None"
    /\ current_track = "None"
    /\ guiCalls = <<>>

Init == PlayInit /\ DetInit /\ SessInit /\ GuiInit

vars == <<playVars, detVars, sessVars, guiVars>>

Spec == Init /\ [][Next]_vars



\* The steps of a running invocation. play_for_emotion runs on one thread
\* and every external call returns or fails, so a running invocation that
\* can take a step eventually takes one.
Progress ==
    \/ GetDevices
    \/ TransferPlayback
    \/ L1TopArtists
    \/ L1TopTracks
    \/ L1Recommendations
    \/ PlayOr1
    \/ L2Playlists
    \/ L2PlaylistTracks(PlayItemSeqs)
    \/ L2AudioFeatures
    \/ PlayOr2
    \/ L3Recommendations
    \/ L3Search
    \/ PlayOr3
    \/ StartPlayback

\* Emotion strings handed to the invocations whose termination is followed.
FairEmotions == {"neutral"}

\* play_for_emotion is called, any number of times.
CallFair ==
    /\ pc \in {"idle", "done"}
    /\ \E e \in FairEmotions : Enter(e)
    /\ UNCHANGED <<ncalls, detVars, sessVars, guiVars>>

NextFair ==
    \/ CallFair
    \/ Progress

SpecFair == Init /\ [][NextFair]_vars /\ WF_vars(Progress)

\* ------------------------------------------------------------------------
\* Specification of sequences of play_for_emotion invocations, the service
\* answering each with whatever device list it then has.
\* ------------------------------------------------------------------------
\* Emotion strings handed to the invocations of a sequence.
SessionEmotions == {"Happy"}

CallAgain ==
    /\ pc \in {"idle", "done"}
    /\ \E e \in SessionEmotions : Enter(e)
    /\ prevDevice' = device
    /\ UNCHANGED <<ncalls, detVars, guiVars>>

NextSessions ==
    \/ CallAgain
    \/ Progress

SpecSessions == Init /\ [][NextSessions]_vars

\* ------------------------------------------------------------------------
\* Specification of the GUI: button presses and timers, next_track_emotion
\* running detect_dominant_emotion and play_for_emotion
\* ------------------------------------------------------------------------
NextGui ==
    \/ GuiPress
    \/ DetGetFrame
    \/ DetAnalyze
    \/ DetSleep
    \/ GuiDispatch
    \/ Progress
    \/ GuiPlayReturn
    \/ GuiNextTrack
    \/ GuiUpdateTrackLabel
    \/ GuiUpdateFrame
    \/ GuiTogglePlayPause
    \/ GuiPreviousTrack

SpecGui == Init /\ [][NextGui]_vars

\* ------------------------------------------------------------------------
\* Specification of _layer_playlist_matches called on its own
\* ------------------------------------------------------------------------
\* Emotion strings handed to the layer.
LayerEmotions == {"happy", "neutral", "bored"}

CallLayer2 ==
    /\ pc \in {"idle", "L2_ret"}
    /\ ncalls < MaxCalls
    /\ \E e \in LayerEmotions : emotion' = e
    /\ ncalls' = ncalls + 1
    /\ pc' = "L2_playlists"
    /\ ret' = <<>>
    /\ ran' = {}
    /\ lret' = [l \in 1..3 |-> <<>>]
    /\ calls' = [a \in APIs |-> 0]
    /\ l2Fetched' = {}
    /\ l2Failed' = FALSE
    /\ l2Lost' = <<>>
    /\ UNCHANGED <<devVars, l1Vars, l2Vars, seed, queue, recArgs, searchArgs,
                   startArgs, transferArgs, outVars>>
    /\ UNCHANGED <<detVars, sessVars, guiVars>>

NextLayer2 ==
    \/ CallLayer2
    \/ L2Playlists
    \/ L2PlaylistTracks(LayerItemSeqs)
    \/ L2AudioFeatures

SpecLayer2 == Init /\ [][NextLayer2]_vars

\* ------------------------------------------------------------------------
\* Specification of _layer_global_recommendations called on its own, with
\* every emotion of the table and one outside it
\* ------------------------------------------------------------------------
TableEmotions == Emotions \cup {"bored"}

CallLayer3 ==
    /\ pc \in {"idle", "L3_ret"}
    /\ ncalls < MaxCalls
    /\ \E e \in TableEmotions : emotion' = e
    /\ ncalls' = ncalls + 1
    /\ pc' = "L3_rec"
    /\ seed' = NONE
    /\ ret' = <<>>
    /\ ran' = {}
    /\ lret' = [l \in 1..3 |-> <<>>]
    /\ calls' = [a \in APIs |-> 0]
    /\ recArgs' = <<>>
    /\ searchArgs' = <<>>
    /\ UNCHANGED <<devVars, l1Vars, l2Vars, l2Hist, queue, startArgs,
                   transferArgs, outVars>>
    /\ UNCHANGED <<detVars, sessVars, guiVars>>

NextLayer3 ==
    \/ CallLayer3
    \/ L3Recommendations
    \/ L3Search

SpecLayer3 == Init /\ [][NextLayer3]_vars

\* ------------------------------------------------------------------------
\* Specification of detect_dominant_emotion
\* ------------------------------------------------------------------------
NextDetect ==
    \/ DetCall
    \/ DetGetFrame
    \/ DetAnalyze
    \/ DetSleep

SpecDetect == Init /\ [][NextDetect]_vars

\* ========================================================================
\* Properties of play_for_emotion
\* ========================================================================
Layer2APIs == {"playlists", "playlist_tracks", "audio_features"}
LayerAPIs == {"top_artists", "top_tracks", "recommendations", "search"} \cup Layer2APIs

\* The recommendations calls of Layer 3 are the genre-only ones.
Layer3RecCalls ==
    {i \in 1..Len(recArgs) : recArgs[i].limit = Layer3Limit
                             /\ recArgs[i].seed_artists = <<>>
                             /\ recArgs[i].seed_tracks = <<>>}

\* C1: the layers run in the order 1, 2, 3; Layer 2's calls happen only after
\* Layer 1 returned an empty queue, Layer 3's calls only after Layers 1 and 2
\* both returned empty queues, and the queue play_for_emotion uses is the one
\* returned by the first layer that returned at least one URI.
C1_LayerOrder ==
    /\ (2 \in ran => 1 \in ran) /\ (3 \in ran => 2 \in ran)
    /\ (\E a \in Layer2APIs : calls[a] > 0) => (1 \in ran /\ lret[1] = <<>>)
    /\ (calls["search"] > 0 \/ Layer3RecCalls # {} \/ pc \in {"L3_rec", "L3_search"})
          => ({1, 2} \subseteq ran /\ lret[1] = <<>> /\ lret[2] = <<>>)
    /\ (pc \in {"start", "done"} /\ ran # {} /\ \E l \in ran : lret[l] # <<>>)
          => \E l \in ran : /\ lret[l] # <<>>
                            /\ queue = lret[l]
                            /\ \A k \in 1..(l - 1) : lret[k] = <<>>
                            /\ \A k \in (l + 1)..3 : k \notin ran

\* Layer 1 came back empty and Layer 2's queue was used: Layer 3 never ran.
C1_Witness ==
    /\ pc = "done"
    /\ ran = {1, 2}
    /\ lret[1] = <<>>
    /\ queue = lret[2]
    /\ Len(queue) > 0
    /\ calls["search"] = 0

\* C2: when device resolution finds no device, play_for_emotion returns
\* failure and neither a recommendation-layer call nor start_playback is made.
C2_NoDeviceNoWork ==
    (calls["devices"] > 0 /\ device = NONE) =>
        /\ pc = "done"
        /\ result = "False"
        /\ \A a \in LayerAPIs \cup {"start_playback", "transfer_playback"} :
              calls[a] = 0

\* The service listed no device and the invocation is over.
C2_Witness ==
    /\ pc = "done"
    /\ calls["devices"] = 1
    /\ devList = <<>>
    /\ device = NONE
    /\ result = "False"

\* C3: with a device resolved and all three layers returning empty queues,
\* play_for_emotion returns failure and start_playback is never called.
C3_ExhaustedNoPlayback ==
    (device # NONE /\ ran = {1, 2, 3} /\ \A l \in 1..3 : lret[l] = <<>>) =>
        /\ calls["start_playback"] = 0
        /\ pc \in {"L3_ret", "done"}
        /\ pc = "done" => result = "False"

\* All three layers, the search fallback included, came back empty.
C3_Witness ==
    /\ pc = "done"
    /\ device # NONE
    /\ ran = {1, 2, 3}
    /\ \A l \in 1..3 : lret[l] = <<>>
    /\ calls["search"] = 1
    /\ result = "False"

\* C4: whatever external call fails or answers in a malformed shape, no
\* exception leaves play_for_emotion: an invocation that is over has returned
\* a boolean.
C4_NoEscape ==
    /\ ~escaped
    /\ pc = "done" => result \in {"True", "False"}

\* top_artists raised (Layer 1 returned without asking for the top tracks),
\* the search fallback ran, start_playback raised: False is returned.
C4_Witness ==
    /\ pc = "done"
    /\ calls["top_artists"] = 1
    /\ calls["top_tracks"] = 0
    /\ calls["search"] = 1
    /\ Len(startArgs) = 1
    /\ startArgs[1].failed
    /\ result = "False"

\* C5: start_playback receives exactly the first min(n, 50) URIs of the queue
\* of length n, in queue order, and the total reported with the emotion is n.
C5_SubmissionCap ==
    /\ \A i \in 1..Len(startArgs) :
          LET u == startArgs[i].uris IN
          /\ Len(queue) >= 1
          /\ Len(u) = (IF Len(queue) < PlaybackCap THEN Len(queue) ELSE PlaybackCap)
          /\ \A j \in 1..Len(u) : u[j] = queue[j]
    /\ \A i \in 1..Len(nowPlaying) :
          /\ nowPlaying[i].total = Len(queue)
          /\ Lower(nowPlaying[i].emotion) = emotion

\* A queue longer than the cap was submitted and reported.
C5_Witness ==
    /\ Len(startArgs) = 1
    /\ Len(queue) > PlaybackCap
    /\ Len(startArgs[1].uris) = PlaybackCap
    /\ Len(nowPlaying) = 1

\* C6: play_for_emotion returns success exactly when start_playback was
\* invoked and did not fail; start_playback is invoked at most once, only
\* after a device was resolved and a non-empty queue produced, and with the
\* device id ensure_device returned (the one transfer_playback was tried on).
C6_SuccessIffPlayback ==
    /\ calls["start_playback"] <= 1
    /\ Len(startArgs) = calls["start_playback"]
    /\ pc = "done" =>
          (result = "True" <=> (Len(startArgs) = 1 /\ ~startArgs[1].failed))
    /\ pc # "done" => result = NONE
    /\ \A i \in 1..Len(startArgs) :
          /\ startArgs[i].device_id # NONE
          /\ \E k \in 1..Len(devList) : devList[k].id = startArgs[i].device_id
          /\ transferArgs = <<startArgs[i].device_id>>
          /\ Len(queue) > 0
          /\ ran # {}

\* Playback was started and the invocation returned True.
C6_Witness ==
    /\ pc = "done"
    /\ result = "True"
    /\ Len(startArgs) = 1


\* ========================================================================
\* Properties of Layer 2
\* ========================================================================
\* The track's own measured values lie within the emotion's interval for
\* every target feature the track has.
OwnFeaturesFit(k, e) ==
    \A t \in TargetsFor(e) :
        \A p \in TrackFeatures(k).m : p[1] = t[1] => (t[2] <= p[2] /\ p[2] <= t[3])

\* The track has feature data, none of it under a name the emotion targets.
NoOverlap(k, e) ==
    /\ ~TrackFeatures(k).isNone
    /\ \A t \in TargetsFor(e) : \A p \in TrackFeatures(k).m : p[1] # t[1]

\* C7: every URI in the queue Layer 2 returns is the URI of a fetched playlist
\* track whose own feature values lie within [low, high] for every target
\* feature present on it.
C7_QueueTracksFit ==
    pc = "L2_ret" =>
        \A i \in 1..Len(ret) :
            \E k \in l2Fetched : TrackUri(k) = ret[i] /\ OwnFeaturesFit(k, emotion)

\* C8: when no fetch fails, every fetched playlist track whose feature data
\* shares no feature name with the emotion's targets is in the queue Layer 2
\* returns.
C8_NoOverlapKept ==
    (pc = "L2_ret" /\ ~l2Failed) =>
        \A k \in l2Fetched :
            NoOverlap(k, emotion) => \E i \in 1..Len(ret) : ret[i] = TrackUri(k)


\* ========================================================================
\* Properties of detect_dominant_emotion
\* ========================================================================
\* The labels of the frames that yielded one, in sampling order, as analyze
\* reports them.
RECURSIVE VotesOf(_)
VotesOf(log) ==
    IF Len(log) = 0 THEN <<>>
    ELSE IF Head(log).label # NONE
    THEN <<Lower(Head(log).label)>> \o VotesOf(Tail(log))
    ELSE VotesOf(Tail(log))

Occurrences(seq, x) == {i \in 1..Len(seq) : seq[i] = x}

FirstAt(seq, x) == CHOOSE i \in Occurrences(seq, x) : \A j \in Occurrences(seq, x) : i <= j

\* C9: when at least one frame yields a label, the label returned has a
\* maximal count among the successful frames, and among the labels with that
\* count it is the one that occurred first in sampling order.
C9_StableMode ==
    (dpc = "done" /\ Len(VotesOf(frameLog)) > 0) =>
        LET votes == VotesOf(frameLog) IN
        /\ Occurrences(votes, dresult) # {}
        /\ \A i \in 1..Len(votes) :
              /\ Cardinality(Occurrences(votes, votes[i]))
                    <= Cardinality(Occurrences(votes, dresult))
              /\ Cardinality(Occurrences(votes, votes[i]))
                    = Cardinality(Occurrences(votes, dresult))
                 => FirstAt(votes, dresult) <= i

\* Two labels tie with two frames each and the later-seen one was not chosen.
C9_Witness ==
    /\ dpc = "done"
    /\ Len(VotesOf(frameLog)) = 4
    /\ dresult = "sad"
    /\ VotesOf(frameLog)[1] = "sad"
    /\ Cardinality(Occurrences(VotesOf(frameLog), "sad")) = 2
    /\ Cardinality(Occurrences(VotesOf(frameLog), "happy")) = 2

\* C10: no-detection is returned exactly when no sampled frame produced a
\* label; a frame whose acquisition or classification failed casts no vote,
\* so a returned label is one the classifier produced for a sampled frame.
C10_NoDetectionIffNoLabel ==
    dpc = "done" =>
        /\ dresult = NONE <=> (\A i \in 1..Len(frameLog) : frameLog[i].label = NONE)
        /\ dresult # NONE =>
              \E i \in 1..Len(frameLog) :
                  frameLog[i].label # NONE /\ Lower(frameLog[i].label) = dresult
        /\ Len(emotions) = Len(VotesOf(frameLog))

\* All frames were sampled, some were not acquired, some not classified, and
\* none gave a label: None is returned.
C10_Witness ==
    /\ dpc = "done"
    /\ Len(frameLog) = EMOTION_FRAMES
    /\ \A i \in 1..Len(frameLog) : frameLog[i].label = NONE
    /\ \E i \in 1..Len(frameLog) : frameLog[i].ok
    /\ \E i \in 1..Len(frameLog) : ~frameLog[i].ok
    /\ dresult = NONE

\* ------------------------------------------------------------------------
\* C11: for an emotion string outside the seven-entry table every layer
\* uses the genre "pop" and the empty target set: each recommendations call
\* carries the single seed genre "pop" and no target hint, Layer 2 filters
\* with an empty target, the search fallback asks for genre:pop, and no
\* exception leaves play_for_emotion.
\* ------------------------------------------------------------------------
C11_UnknownEmotionDefaults ==
    (emotion # NONE /\ emotion \notin Emotions) =>
        /\ ~escaped
        /\ \A i \in 1..Len(recArgs) :
              recArgs[i].seed_genres = <<"pop">> /\ recArgs[i].targets = {}
        /\ \A i \in 1..Len(searchArgs) : searchArgs[i].q = <<"genre:", "pop">>
        /\ (pc \in {"L2_tracks", "L2_features"} => target = {})

\* An unknown emotion went through all three layers and the search fallback
\* and playback was started.
C11_Witness ==
    /\ emotion = "bored"
    /\ pc = "done"
    /\ result = "True"
    /\ Len(recArgs) = 2
    /\ calls["audio_features"] >= 1
    /\ calls["search"] = 1

\* ------------------------------------------------------------------------
\* C12: for each of the seven emotions of the table the genre set is
\* non-empty, every feature range has low <= high, and the hint that
\* _convert_targets sends for a feature (one hint per range of the table)
\* lies within that feature's range.
\* ------------------------------------------------------------------------
C12_TableWellFormed ==
    emotion \in Emotions =>
        /\ Len(EMOTION_GENRES[emotion]) > 0
        /\ \A t \in EMOTION_TARGETS[emotion] : t[2] <= t[3]
        /\ \A i \in 1..Len(recArgs) :
              /\ \A h \in recArgs[i].targets :
                    \E t \in EMOTION_TARGETS[emotion] :
                        t[1] = h[1] /\ t[2] <= h[2] /\ h[2] <= t[3]
              /\ \A t \in EMOTION_TARGETS[emotion] :
                    \E h \in recArgs[i].targets : h[1] = t[1]

\* A recommendations call was made for "angry", whose table entry holds the
\* tempo range, and carried three hints.
C12_Witness ==
    /\ emotion = "angry"
    /\ Len(recArgs) = 1
    /\ Cardinality(recArgs[1].targets) = 3
    /\ \E h \in recArgs[1].targets : h[1] = "tempo"

\* ------------------------------------------------------------------------
\* C13: when a playlist listing or a track / feature fetch fails during
\* Layer 2, the layer yields the empty queue even if tracks of earlier
\* playlists had matched; play_for_emotion then goes on to Layer 3, and no
\* URI of a playlist is submitted to playback after Layer 2 gave nothing.
\* ------------------------------------------------------------------------
C13_FailureDiscardsMatches ==
    /\ [](/\ (pc = "L2_ret" /\ l2Failed) => (ret = <<>> /\ lret[2] = <<>>)
          /\ (2 \in ran /\ lret[2] = <<>>) =>
                \A i \in 1..Len(startArgs) :
                    \A k \in TrackIds : TrackUri(k) \notin Range(startArgs[i].uris))
    /\ [][(pc = "L2_ret" /\ l2Failed) =>
            (pc' = "L3_rec" /\ lret' = lret /\ startArgs' = startArgs)]_vars

\* A fetch failed after a track of an earlier playlist had matched; the
\* layer returned the empty queue.
C13_Witness ==
    /\ pc = "L2_ret"
    /\ l2Failed
    /\ Len(l2Lost) > 0
    /\ ret = <<>>
    /\ calls["playlist_tracks"] = 2

\* ------------------------------------------------------------------------
\* C14: inside Layer 3 the search fallback is invoked exactly when the
\* recommendations call returned no track or failed; its query is
\* genre:<seed> for the seed genre of that recommendations call, with a
\* result limit of 30; Layer 3 then returns the search's URIs in the
\* service's order (nothing if the search fails); and search is called at
\* most once per invocation of play_for_emotion.
\* ------------------------------------------------------------------------
SourceUris(source) == {UriBase(source) + i : i \in 1..(PlaybackCap + MaxExtra + 1)}

C14_SearchFallback ==
    /\ calls["search"] <= 1
    /\ Len(searchArgs) = calls["search"]
    /\ (pc = "L3_search" \/ calls["search"] = 1) =>
          /\ Cardinality(Layer3RecCalls) = 1
          /\ Range(lret[3]) \cap SourceUris("layer3") = {}
    /\ (3 \in ran /\ calls["search"] = 0) =>
          /\ lret[3] # <<>>
          /\ Range(lret[3]) \subseteq SourceUris("layer3")
    /\ (3 \in ran /\ calls["search"] = 1) =>
          lret[3] = [i \in 1..Len(lret[3]) |-> UriBase("search") + i]
    /\ \A i \in 1..Len(searchArgs) :
          /\ searchArgs[i].q = <<"genre:", recArgs[Len(recArgs)].seed_genres[1]>>
          /\ searchArgs[i].limit = SearchLimit
          /\ searchArgs[i].type = "track"

\* The recommendations call of Layer 3 for "happy" was seeded with "latin"
\* and gave nothing; the search was made and Layer 3 returned its two URIs.
C14_Witness ==
    /\ emotion = "happy"
    /\ 3 \in ran
    /\ calls["search"] = 1
    /\ searchArgs[1].q = <<"genre:", "latin">>
    /\ Len(lret[3]) = 2

\* ------------------------------------------------------------------------
\* C15: for every non-empty (well-formed) device list, ensure_device
\* returns the identifier of the first device marked active, or of the
\* first listed device when none is active; one transfer of playback to
\* that identifier is attempted; a transfer that fails changes neither the
\* identifier nor the course of play_for_emotion, which goes on to the
\* layers and submits playback to that same identifier.
\* ------------------------------------------------------------------------
WellFormed(l) == \A i \in 1..Len(l) : l[i].keys = {"id", "is_active"}

ExpectedDevice(l) ==
    IF \E i \in 1..Len(l) : l[i].is_active
    THEN l[CHOOSE i \in 1..Len(l) :
              l[i].is_active /\ \A j \in 1..(i - 1) : ~l[j].is_active].id
    ELSE l[1].id

C15_DeviceChoice ==
    /\ (pc \notin {"idle", "devices"} /\ devList # <<>> /\ WellFormed(devList)) =>
          device = ExpectedDevice(devList)
    /\ pc = "transfer" => (device # NONE /\ transferArgs = <<>>)
    /\ (device # NONE /\ pc \notin {"devices", "transfer"}) =>
          transferArgs = <<device>>
    /\ xferFailed =>
          (pc = "L1_artists" /\ result = NONE /\ transferArgs = <<device>>)
    /\ \A i \in 1..Len(startArgs) : startArgs[i].device_id = device

\* The second of two devices is the first active one; the transfer to it
\* failed and play_for_emotion stands at the entry of Layer 1.
C15_Witness ==
    /\ pc = "L1_artists"
    /\ xferFailed
    /\ Len(devList) = 2
    /\ WellFormed(devList)
    /\ ~devList[1].is_active
    /\ devList[2].is_active
    /\ device = "d2"

\* ------------------------------------------------------------------------
\* C16: every recommendations call carries exactly one seed genre, taken
\* from the emotion's candidate genres. The call of Layer 1 carries at most
\* one seed artist and at most one seed track, each the first entry of the
\* user's top list when that list is non-empty (no seed otherwise), and
\* asks for at most 40 tracks; the call of Layer 3 carries no artist or
\* track seed and asks for at most 50.
\* ------------------------------------------------------------------------
FirstOrNothing(l) == IF l = <<>> THEN <<>> ELSE <<l[1]>>

CandidateGenres(e) == IF e \in Emotions THEN Range(EMOTION_GENRES[e]) ELSE {"pop"}

LastRecCall == recArgs'[Len(recArgs')]

RecCallStep ==
    /\ (pc = "L1_rec" /\ recArgs' # recArgs) =>
          /\ recArgs' = Append(recArgs, LastRecCall)
          /\ LastRecCall.limit = Layer1Limit
          /\ LastRecCall.seed_artists = FirstOrNothing(topArtists.items)
          /\ LastRecCall.seed_tracks = FirstOrNothing(topTracks.items)
    /\ (pc = "L3_rec" /\ recArgs' # recArgs) =>
          /\ recArgs' = Append(recArgs, LastRecCall)
          /\ LastRecCall.limit = Layer3Limit

C16_RecommendationArgs ==
    /\ [](\A i \in 1..Len(recArgs) :
            /\ Len(recArgs[i].seed_genres) = 1
            /\ recArgs[i].seed_genres[1] \in CandidateGenres(emotion)
            /\ Len(recArgs[i].seed_artists) <= 1
            /\ Len(recArgs[i].seed_tracks) <= 1
            /\ recArgs[i].limit \in {Layer1Limit, Layer3Limit}
            /\ recArgs[i].limit = Layer3Limit =>
                  (recArgs[i].seed_artists = <<>> /\ recArgs[i].seed_tracks = <<>>))
    /\ [][RecCallStep]_vars

\* Layer 1 was called with the first top artist and no top track, Layer 3
\* with the genre alone.
C16_Witness ==
    /\ Len(recArgs) = 2
    /\ recArgs[1].seed_artists = <<"a1">>
    /\ recArgs[1].seed_tracks = <<>>
    /\ recArgs[1].limit = Layer1Limit
    /\ recArgs[2].limit = Layer3Limit

\* ------------------------------------------------------------------------
\* C17: a detect_dominant_emotion call requests exactly EMOTION_FRAMES
\* frames and never more, and between any two consecutive frame requests
\* the delay elapses exactly once, whatever became of the earlier frame:
\* whenever a frame is about to be requested, or the call has returned,
\* the delay has elapsed once for each frame requested so far, and while a
\* frame is being handled it has elapsed once for each earlier frame.
\* ------------------------------------------------------------------------
C17_FramesSpacedByDelay ==
    /\ di <= EMOTION_FRAMES
    /\ Len(frameLog) <= di
    /\ dpc = "done" => (di = EMOTION_FRAMES /\ Len(frameLog) = EMOTION_FRAMES)
    /\ dpc \in {"frame", "done"} => sleeps = di
    /\ dpc \in {"analyze", "sleep"} => sleeps = di - 1

\* ------------------------------------------------------------------------
\* C18: provided every external call returns or fails and the playlist list
\* is finite, every invocation of play_for_emotion ends with a boolean
\* result; no failure leads to a retry: each layer is entered at most once
\* per invocation (its first call is made at most once, and Layer 2 fetches
\* the tracks of each playlist at most once).
\* ------------------------------------------------------------------------
Running == pc \notin {"idle", "done"}

Finished == pc = "done" /\ result \in {"True", "False"} /\ ~escaped

C18_Terminates ==
    /\ Running ~> Finished
    /\ [](/\ calls["devices"] <= 1
          /\ calls["top_artists"] <= 1
          /\ calls["playlists"] <= 1
          /\ calls["playlist_tracks"] <= MaxPlaylists
          /\ calls["audio_features"] <= calls["playlist_tracks"]
          /\ Cardinality(Layer3RecCalls) <= 1
          /\ calls["search"] <= 1
          /\ calls["start_playback"] <= 1)

\* An invocation in which every layer failed or gave nothing has ended
\* with False.
C18_Witness ==
    /\ pc = "done"
    /\ result = "False"
    /\ ran = {1, 2, 3}
    /\ calls["search"] = 1
    /\ calls["start_playback"] = 0

\* ------------------------------------------------------------------------
\* C19: over sequences of invocations between which the device list
\* changes, each invocation lists the devices anew exactly once (before
\* anything else, starting without a device), and every identifier it
\* passes to transfer_playback or start_playback is that of a device in the
\* list returned in this same invocation.
\* ------------------------------------------------------------------------
ListedIds == {devList[k].id : k \in {n \in 1..Len(devList) : "id" \in devList[n].keys}}

C19_DevicesListedAnew ==
    /\ pc = "devices" => (calls["devices"] = 0 /\ device = NONE)
    /\ pc \notin {"idle", "devices"} => calls["devices"] = 1
    /\ \A i \in 1..Len(transferArgs) : transferArgs[i] \in ListedIds
    /\ \A i \in 1..Len(startArgs) : startArgs[i].device_id \in ListedIds

\* The previous invocation resolved d2; d2 is gone from the list of this
\* invocation, which transferred to d1 and started playback on it.
C19_Witness ==
    /\ prevDevice = "d2"
    /\ Len(devList) = 1
    /\ transferArgs = <<"d1">>
    /\ Len(startArgs) = 1
    /\ startArgs[1].device_id = "d1"
    /\ result = "True"

\* ------------------------------------------------------------------------
\* C20: in next_track_emotion, over any sequence of button presses: when
\* detection yields a label, current_emotion is set to it and
\* play_for_emotion is called with it, and current_emotion keeps the label
\* whatever play_for_emotion returns; when detection yields nothing,
\* current_emotion is left as it was, play_for_emotion is not called and
\* one plain next_track is issued. No other step of any handler changes
\* current_emotion.
\* ------------------------------------------------------------------------
GuiEmotionStep ==
    /\ (gpc = "detect" /\ dpc = "done" /\ dresult # NONE) =>
          /\ current_emotion' = dresult
          /\ gpc' = "play"
          /\ pc' = "devices"
          /\ emotion' = dresult
          /\ guiCalls' = <<>>
    /\ (gpc = "detect" /\ dpc = "done" /\ dresult = NONE) =>
          /\ current_emotion' = current_emotion
          /\ gpc' = "next_track"
          /\ UNCHANGED playVars
    /\ gpc = "next_track" =>
          /\ guiCalls' = <<"next_track">>
          /\ gpc' = "idle"
          /\ UNCHANGED <<current_emotion, playVars>>
    /\ current_emotion' # current_emotion =>
          (gpc = "detect" /\ dpc = "done" /\ dresult # NONE)

C20_CurrentEmotion ==
    /\ [](/\ gpc = "play" =>
                /\ pc # "idle"
                /\ emotion = current_emotion
                /\ current_emotion \notin {"None", NONE}
                /\ guiCalls = <<>>
          /\ gpc # "play" => pc = "idle")
    /\ [][GuiEmotionStep]_vars

\* A press detected "happy"; at a later press nothing was detected: the
\* plain next_track was issued and current_emotion is still "happy".
C20_Witness ==
    /\ gpc = "idle"
    /\ guiCalls = <<"next_track">>
    /\ current_emotion = "happy"
    /\ pc = "idle"

====
